---- MODULE Spec2Model ----
(***************************************************************************)
(* BookSuggester: the POST /api/recommend pipeline (sanitize, build the    *)
(* prompt, call the mock or the remote gateway, validate, respond).        *)
(*                                                                         *)
(* The repository holds two server programs:                               *)
(*   "unnamed"  src/unnamed/part_000 lines 32-299                          *)
(*   "backend"  src/backend/server.js lines 1-309                          *)
(* A process runs one of them; the variable `server` says which.           *)
(*                                                                         *)
(* Representation.  A JavaScript value is a tagged record:                 *)
(*   [t |-> "undef"]                  undefined / an absent property       *)
(*   [t |-> "null"]                   null                                 *)
(*   [t |-> "str", v |-> <<c1,..>>]   a string, v its UTF-16 code units    *)
(*   [t |-> "int", n |-> k]           an integral number                   *)
(*   [t |-> "nan"]                    NaN                                  *)
(*   [t |-> "arr", v |-> <<x1,..>>]   an array                             *)
(*   [t |-> "obj", results |-> x, metadata |-> y]   a result object; a key *)
(*                                    that is absent is Undef              *)
(* The text of a model reply is a sequence of tokens (see JSON_parse).     *)
(* Requests are those that the middleware chain (helmet, cors, the JSON    *)
(* body parser, the rate limiter) hands to the route handler.              *)
(***************************************************************************)
EXTENDS Integers, Sequences, FiniteSets, TLC

VARIABLES
    server,          \* which program the process runs: "unnamed" | "backend"
    USE_MOCK,        \* process.env.MOCK_MODE === 'true', read once at startup
    GEMINI_API_KEY,  \* process.env.GEMINI_API_KEY, a sequence of characters
    up,              \* the node process is alive
    rs,              \* rs[r]: the request in connection slot r
    pc,              \* "serve", or the position of a function harness
    input,           \* the harness's argument
    output           \* the harness's results

vars == <<server, USE_MOCK, GEMINI_API_KEY, up, rs, pc, input, output>>

(***************************************************************************)
(* Bounds of the model.                                                    *)
(***************************************************************************)
MaxStrLen == 3
MaxInFlight == 1
MaxN == 7
MaxInner == 3

(***************************************************************************)
(* JavaScript values.                                                      *)
(***************************************************************************)
Undef == [t |-> "undef"]
Null == [t |-> "null"]
NaN == [t |-> "nan"]
Str(s) == [t |-> "str", v |-> s]
Int_(k) == [t |-> "int", n |-> k]

\* ToBoolean: undefined, null, "", 0 and NaN are falsy.
Truthy(x) ==
    CASE x.t = "undef" -> FALSE
      [] x.t = "null" -> FALSE
      [] x.t = "nan" -> FALSE
      [] x.t = "str" -> x.v # <<>>
      [] x.t = "int" -> x.n # 0
      [] OTHER -> TRUE

Min(a, b) == IF a <= b THEN a ELSE b
Max(a, b) == IF a >= b THEN a ELSE b

(***************************************************************************)
(* sanitizeText: s.replace(/[\u0000-\u001f\u007f-\u009f]/g, '').           *)
(***************************************************************************)
\* A slip in the character class: the upper end of each range left out.
IsControlOpenRange(c) == (c >= 0 /\ c < 31) \/ (c >= 127 /\ c < 159)

IsControl(c) == (c >= 0 /\ c <= 31) \/ (c >= 127 /\ c <= 159)

RECURSIVE StripControl(_)
StripControl(s) ==
    IF s = <<>> THEN <<>>
    ELSE IF IsControl(Head(s)) THEN StripControl(Tail(s))
    ELSE <<Head(s)>> \o StripControl(Tail(s))

RECURSIVE Digits(_)
Digits(k) == IF k < 10 THEN <<48 + k>> ELSE Digits(k \div 10) \o <<48 + (k % 10)>>

\* String(s) of a truthy value.
StringOf(x) ==
    CASE x.t = "str" -> x.v
      [] x.t = "int" -> IF x.n < 0 THEN <<45>> \o Digits(-x.n) ELSE Digits(x.n)
      [] OTHER -> <<>>

\* if (!s) return s; return String(s).replace(...)
sanitizeText(s) == IF ~Truthy(s) THEN s ELSE Str(StripControl(StringOf(s)))

(***************************************************************************)
(* The text of a model reply, as a sequence of tokens:                     *)
(*   "F" three backticks      "W" the word json       "S" white space      *)
(*   "Q" a double quote       "x" any other prose                          *)
(*   "5" a number literal     "null"                                       *)
(*   "{}" an object literal with no results key                            *)
(*   "{R}" an object literal with a results key, "{RM}" with results and   *)
(*   metadata keys                                                         *)
(* A JSON document is one literal, or a string: Q, tokens other than Q, Q; *)
(* white space may surround it.                                            *)
(***************************************************************************)
Literals == {"5", "null", "{}", "{R}", "{RM}"}
Tokens == {"F", "W", "S", "Q", "x"} \cup Literals

Book(i) == [title |-> i]
ModelResults == [t |-> "results", fiction |-> <<Book(1)>>, nonfiction |-> <<Book(1)>>]
ModelMetadata == [t |-> "meta", request_id |-> Str(<<109>>)]
Obj(r, m) == [t |-> "obj", results |-> r, metadata |-> m]

LiteralValue(tok) ==
    CASE tok = "5" -> Int_(5)
      [] tok = "null" -> Null
      [] tok = "{}" -> Obj(Undef, Undef)
      [] tok = "{R}" -> Obj(ModelResults, Undef)
      [] tok = "{RM}" -> Obj(ModelResults, ModelMetadata)

RECURSIVE TrimStart(_)
TrimStart(s) == IF s # <<>> /\ Head(s) = "S" THEN TrimStart(Tail(s)) ELSE s

RECURSIVE TrimEnd(_)
TrimEnd(s) ==
    IF s # <<>> /\ s[Len(s)] = "S" THEN TrimEnd(SubSeq(s, 1, Len(s) - 1)) ELSE s

\* String.prototype.trim
Trim(s) == TrimEnd(TrimStart(s))

\* The message of the SyntaxError that JSON.parse throws.
SyntaxErrorMessage == "Unexpected token in JSON"

\* JSON.parse(s): [ok |-> TRUE, val |-> the value], or ok = FALSE and the
\* message of the SyntaxError it throws.
JSON_parse(s) ==
    LET t == Trim(s) IN
    IF Len(t) = 1 /\ t[1] \in Literals
    THEN [ok |-> TRUE, val |-> LiteralValue(t[1]), msg |-> ""]
    ELSE IF /\ Len(t) >= 2
            /\ t[1] = "Q"
            /\ t[Len(t)] = "Q"
            /\ \A i \in 2..(Len(t) - 1) : t[i] # "Q"
    THEN [ok |-> TRUE, val |-> Str(SubSeq(t, 2, Len(t) - 1)), msg |-> ""]
    ELSE [ok |-> FALSE, val |-> Undef, msg |-> SyntaxErrorMessage]

\* String.prototype.indexOf, 1-based; 0 when sep does not occur.
IndexOf(s, sep) ==
    LET hits == {i \in 1..(Len(s) - Len(sep) + 1) : SubSeq(s, i, i + Len(sep) - 1) = sep}
    IN IF hits = {} THEN 0 ELSE CHOOSE i \in hits : \A j \in hits : i <= j

\* String.prototype.includes
Includes(s, sep) == IndexOf(s, sep) # 0

\* s.split(sep)[0]: what precedes the first sep, all of s when there is none.
SplitFirst(s, sep) ==
    IF Includes(s, sep) THEN SubSeq(s, 1, IndexOf(s, sep) - 1) ELSE s

\* s.split(sep)[1], for an s that includes sep: what lies between the first
\* sep and the next one (or the end).
SplitSecond(s, sep) ==
    SplitFirst(SubSeq(s, IndexOf(s, sep) + Len(sep), Len(s)), sep)

FenceJson == <<"F", "W">>
Fence == <<"F">>

\* backend: the string handed to JSON.parse.
extractJson(text) ==
    IF Includes(text, FenceJson)
    THEN Trim(SplitFirst(SplitSecond(text, FenceJson), Fence))
    ELSE IF Includes(text, Fence)
    THEN Trim(SplitFirst(SplitSecond(text, Fence), Fence))
    ELSE text

(***************************************************************************)
(* Numbers: Number(x), parseInt(s), Math.min.                              *)
(***************************************************************************)
IsDigit(c) == c >= 48 /\ c <= 57

RECURSIVE DigitsValue(_)
DigitsValue(s) ==
    IF s = <<>> THEN 0 ELSE 10 * DigitsValue(SubSeq(s, 1, Len(s) - 1)) + (s[Len(s)] - 48)

RECURSIVE LeadingDigits(_)
LeadingDigits(s) ==
    IF s # <<>> /\ IsDigit(Head(s)) THEN <<Head(s)>> \o LeadingDigits(Tail(s)) ELSE <<>>

RECURSIVE SkipSpaces(_)
SkipSpaces(s) == IF s # <<>> /\ Head(s) = 32 THEN SkipSpaces(Tail(s)) ELSE s

\* parseInt(s) of a string: leading spaces, a sign, then the leading digits.
parseInt(x) ==
    IF x.t # "str" THEN NaN
    ELSE LET s == SkipSpaces(x.v)
             neg == s # <<>> /\ Head(s) = 45
             u == IF s # <<>> /\ Head(s) \in {43, 45} THEN Tail(s) ELSE s
             d == LeadingDigits(u)
         IN IF d = <<>> THEN NaN
            ELSE Int_(IF neg THEN -DigitsValue(d) ELSE DigitsValue(d))

\* Number(x): the whole string must be a numeral; "" and null are 0.
Number(x) ==
    CASE x.t = "int" -> x
      [] x.t = "null" -> Int_(0)
      [] x.t = "str" ->
           LET s == SkipSpaces(x.v)
               neg == s # <<>> /\ Head(s) = 45
               u == IF s # <<>> /\ Head(s) \in {43, 45} THEN Tail(s) ELSE s
           IN IF s = <<>> THEN Int_(0)
              ELSE IF u # <<>> /\ LeadingDigits(u) = u
              THEN Int_(IF neg THEN -DigitsValue(u) ELSE DigitsValue(u))
              ELSE NaN
      [] OTHER -> NaN

\* Math.min(a, b) of two numbers: NaN when either is NaN.
MathMin(a, b) ==
    IF a.t = "nan" \/ b.t = "nan" THEN NaN ELSE Int_(Min(a.n, b.n))

\* Math.max(a, b)
MathMax(a, b) ==
    IF a.t = "nan" \/ b.t = "nan" THEN NaN ELSE Int_(Max(a.n, b.n))

\* a + k for a number a and an integer k
Plus(a, k) == IF a.t = "int" THEN Int_(a.n + k) ELSE NaN

\* unnamed: Number(body.max_results_per_category) || 5
maxPerCategoryBody(body) ==
    LET n == Number(body.max_results_per_category)
    IN IF Truthy(n) THEN n ELSE Int_(5)

\* backend: Math.min(parseInt(req.query.max || '3'), 5)
maxPerCategoryQuery(query) ==
    MathMin(parseInt(IF Truthy(query.max) THEN query.max ELSE Str(<<51>>)), Int_(5))

\* Array.prototype.slice(0, end) with a number end.
SliceTo(arr, end) ==
    IF end.t # "int" THEN <<>>
    ELSE IF end.n < 0 THEN SubSeq(arr, 1, Max(Len(arr) + end.n, 0))
    ELSE SubSeq(arr, 1, Min(end.n, Len(arr)))

(***************************************************************************)
(* Requests.  body.profile is a profile or Undef; body.own holds the       *)
(* profile properties that sit at the top level of the body itself.        *)
(***************************************************************************)
Arr(v) == [t |-> "arr", v |-> v]

Profile(age, reading_level, gender, interests) ==
    [t |-> "profile", age |-> age, reading_level |-> reading_level,
     gender |-> gender, interests |-> interests]

NoProfile == Profile(Undef, Undef, Undef, Undef)

\* arr.map(sanitizeText)
MapSanitize(a) == Arr([i \in 1..Len(a.v) |-> sanitizeText(a.v[i])])

RECURSIVE SplitComma(_)
\* s.split(',') of a string of code units
SplitComma(s) ==
    LET hits == {i \in 1..Len(s) : s[i] = 44} IN
    IF hits = {} THEN <<Str(s)>>
    ELSE LET i == CHOOSE i \in hits : \A j \in hits : i <= j
         IN <<Str(SubSeq(s, 1, i - 1))>> \o SplitComma(SubSeq(s, i + 1, Len(s)))

RECURSIVE FilterBoolean(_)
\* arr.filter(Boolean)
FilterBoolean(a) ==
    IF a = <<>> THEN <<>>
    ELSE (IF Truthy(Head(a)) THEN <<Head(a)>> ELSE <<>>) \o FilterBoolean(Tail(a))

\* uuidv4(): a non-empty string
uuidv4 == Str(<<117, 117, 105, 100>>)

(***************************************************************************)
(* buildPrompt: the values interpolated into the instruction text.         *)
(***************************************************************************)
PromptProfile(profile) ==
    [age |-> profile.age,
     gender |-> profile.gender,
     reading_level |-> profile.reading_level,
     interests |-> IF Truthy(profile.interests) THEN profile.interests ELSE Arr(<<>>)]

\* unnamed: the seed is a parameter but is not interpolated.
buildPromptU(profile, maxPerCategory, excludeTitles, seed) ==
    [t |-> "prompt",
     profile |-> PromptProfile(profile),
     maxPerCategory |-> maxPerCategory,
     excludeTitles |-> IF Truthy(excludeTitles) THEN excludeTitles ELSE Arr(<<>>),
     seed |-> Undef]

buildPromptB(profile, maxPerCategory, excludeTitles, seed) ==
    [t |-> "prompt",
     profile |-> PromptProfile(profile),
     maxPerCategory |-> maxPerCategory,
     excludeTitles |-> excludeTitles,
     seed |-> seed]

\* A hexadecimal digit, in lower case, as JSON.stringify writes it.
HexDigit(d) == IF d < 10 THEN 48 + d ELSE 87 + d

\* JSON.stringify of one code unit of a string: the quote, the backslash and
\* the code units below U+0020 are escaped, every other code unit stands as
\* it is (U+007F..U+009F included).
QuoteUnit(c) ==
    CASE c = 34 -> <<92, 34>>
      [] c = 92 -> <<92, 92>>
      [] c = 8 -> <<92, 98>>
      [] c = 9 -> <<92, 116>>
      [] c = 10 -> <<92, 110>>
      [] c = 12 -> <<92, 102>>
      [] c = 13 -> <<92, 114>>
      [] c < 32 -> <<92, 117, 48, 48, HexDigit(c \div 16), HexDigit(c % 16)>>
      [] OTHER -> <<c>>

RECURSIVE QuoteUnits(_)
QuoteUnits(s) == IF s = <<>> THEN <<>> ELSE QuoteUnit(Head(s)) \o QuoteUnits(Tail(s))

\* JSON.stringify(v) of a string, a number or null; an undefined property
\* is left out of the text.
JSON_stringify(v) ==
    CASE v.t = "str" -> <<34>> \o QuoteUnits(v.v) \o <<34>>
      [] v.t = "int" -> StringOf(v)
      [] v.t = "null" -> <<110, 117, 108, 108>>
      [] OTHER -> <<>>

\* `${seed}` in a template literal: String(seed)
TemplateString(v) ==
    CASE v.t = "undef" -> <<117, 110, 100, 101, 102, 105, 110, 101, 100>>
      [] v.t = "null" -> <<110, 117, 108, 108>>
      [] OTHER -> StringOf(v)

\* The values of the request that buildPrompt interpolates.
Interpolated(b) ==
    <<b.profile.gender, b.profile.reading_level>>
        \o b.profile.interests.v \o b.excludeTitles.v
        \o (IF b.seed.t = "undef" THEN <<>> ELSE <<b.seed>>)

\* The pieces of the instruction text that come from the request:
\* ${JSON.stringify(p, null, 2)}, ${JSON.stringify(excludeTitles)} and, in
\* the backend server, ${seed}.
instruction(b) ==
    <<JSON_stringify(b.profile.gender), JSON_stringify(b.profile.reading_level)>>
        \o [i \in 1..Len(b.profile.interests.v) |-> JSON_stringify(b.profile.interests.v[i])]
        \o [i \in 1..Len(b.excludeTitles.v) |-> JSON_stringify(b.excludeTitles.v[i])]
        \o (IF b.seed.t = "undef" THEN <<>> ELSE <<TemplateString(b.seed)>>)

(***************************************************************************)
(* The mock gateways.                                                      *)
(***************************************************************************)
Results(f, n) == [t |-> "results", fiction |-> f, nonfiction |-> n]
Metadata(id) == [t |-> "meta", request_id |-> id]

\* unnamed, make(title, tags, fiction): the fields computed from the profile
make(i, profile) ==
    [title |-> i,
     age_lo |-> MathMax(Int_(4), Plus(profile.age, -2)),
     age_hi |-> Plus(profile.age, 3)]

\* The loop of mockLLMResponse: the number of i = 0, 1, .. with i < bound.
LoopCount(bound) == IF bound.t = "int" THEN Max(bound.n, 0) ELSE 0

\* A slip in the loop: i <= bound instead of i < bound.
mockLLMResponseU_OffByOne(profile, prompt) ==
    LET n == LoopCount(MathMin(Int_(5),
                 IF Truthy(prompt.maxPerCategory) THEN prompt.maxPerCategory ELSE Int_(5))) + 1
    IN Obj(Results([i \in 1..n |-> make(i, profile)], [i \in 1..n |-> make(i, profile)]),
           Metadata(uuidv4))

mockLLMResponseU(profile, prompt) ==
    LET n == LoopCount(MathMin(Int_(5),
                 IF Truthy(prompt.maxPerCategory) THEN prompt.maxPerCategory ELSE Int_(5)))
    IN Obj(Results([i \in 1..n |-> make(i, profile)], [i \in 1..n |-> make(i, profile)]),
           Metadata(uuidv4))

\* backend: one hardcoded entry per category, cut by slice(0, maxPerCategory)
mockLLMResponseB(profile, maxPerCategory) ==
    Obj(Results(SliceTo(<<[title |-> 1, age_lo |-> Int_(8), age_hi |-> Int_(12)]>>,
                        maxPerCategory),
                SliceTo(<<[title |-> 1, age_lo |-> Int_(7), age_hi |-> Int_(13)]>>,
                        maxPerCategory)),
        Undef)

\* obj[key] for key "results" or "metadata"; undefined on a primitive
Prop(v, key) == IF v.t = "obj" THEN v[key] ELSE Undef

\* unnamed: if(!obj || !obj.metadata || !obj.results) return false
validateSchema(obj) ==
    ~(~Truthy(obj) \/ ~Truthy(Prop(obj, "metadata")) \/ ~Truthy(Prop(obj, "results")))

(***************************************************************************)
(* Replies of the remote API to axios.post, and console lines.             *)
(*   "neterr"           the transport failed; axios rejects                *)
(*   "http"             a non-2xx status; axios rejects                    *)
(*   "nocandidates"     2xx, data without candidates                       *)
(*   "emptycandidates"  2xx, candidates = []                               *)
(*   "nocontent"        2xx, candidates[0] without content                 *)
(*   "text"             2xx, candidates[0].content.parts[0].text = text    *)
(* A message or console line is a sequence of pieces; the characters of    *)
(* the credential are pieces of their own.                                 *)
(***************************************************************************)
Reply(k, text, err) == [t |-> "reply", k |-> k, text |-> text, err |-> err]

\* String.prototype.substring(0, n)
Substring0(s, n) == SubSeq(s, 1, Min(n, Len(s)))

\* What a handler step hands back: k = "respond" (a response was sent),
\* "await" (suspended on axios.post), "return" / "throw" (of the gateway).
\* gw: whether the gateway has "returned" a value (val) or "threw".
Frame(k) ==
    [k |-> k, val |-> Undef, err |-> <<>>, status |-> 0, body |-> Undef,
     log |-> {}, remoteCalls |-> 0, mockCalls |-> 0, prompt |-> Undef,
     gw |-> "none", responses |-> 0]

Respond(status, body, log) ==
    [Frame("respond") EXCEPT !.status = status, !.body = body, !.log = log,
                             !.responses = 1]

Throw(err, log) == [Frame("throw") EXCEPT !.err = err, !.log = log]

TextBody(msg) == [t |-> "text", v |-> msg]
ErrorBody(error, details) == [t |-> "error", error |-> error, details |-> details]

(***************************************************************************)
(* unnamed: callGemini(prompt, profile), up to the await and after it.     *)
(***************************************************************************)
callGeminiU_start(prompt, profile, mock, key) ==
    IF mock
    THEN [Frame("return") EXCEPT
            !.val = mockLLMResponseU(profile, prompt),
            !.mockCalls = 1,
            !.log = {<<"Calling Gemini with mock mode:">>, <<"Using mock response">>}]
    ELSE IF key = <<>>
    THEN Throw(<<"GEMINI_API_KEY not set - check your .env file">>,
               {<<"Calling Gemini with mock mode:">>,
                <<"GEMINI_API_KEY is missing or empty">>})
    ELSE [Frame("await") EXCEPT
            !.remoteCalls = 1,
            !.prompt = prompt,
            !.log = {<<"Calling Gemini with mock mode:">>,
                     <<"Using Gemini API with key:">> \o Substring0(key, 10) \o <<"...">>}]

\* unnamed, lines 200-222: what follows a fulfilled axios.post
callGeminiU_read(reply) ==
    IF reply.k \in {"nocandidates", "emptycandidates"}
    THEN Throw(<<"Invalid response from Gemini">>, {})
    ELSE IF reply.k = "nocontent"
    THEN Throw(<<"Failed to parse Gemini response as JSON: ",
                 "Cannot read properties of undefined">>,
               {<<"Received Gemini response">>})
    ELSE LET parsed == JSON_parse(reply.text)
             seen == {<<"Received Gemini response">>, <<"Gemini response text:", "<text>">>}
         IN IF ~parsed.ok
            THEN Throw(<<"Failed to parse Gemini response as JSON: ", parsed.msg>>, seen)
            ELSE IF parsed.val.t = "null"
            THEN Throw(<<"Failed to parse Gemini response as JSON: ",
                         "Cannot set properties of null">>,
                       seen \cup {<<"Parsed JSON successfully">>})
            ELSE [Frame("return") EXCEPT
                    !.val = IF parsed.val.t = "obj"
                            THEN [parsed.val EXCEPT !.metadata = Metadata(uuidv4)]
                            ELSE parsed.val,
                    !.log = seen \cup {<<"Parsed JSON successfully">>}]

\* A slip: a failed call is issued again.
callGeminiU_resume_Retry(reply) ==
    IF reply.k \in {"neterr", "http"}
    THEN [Frame("await") EXCEPT !.remoteCalls = 1]
    ELSE callGeminiU_read(reply)

\* unnamed, line 167: the await; a rejected axios.post throws its error
callGeminiU_resume(reply) ==
    IF reply.k \in {"neterr", "http"}
    THEN Throw(reply.err, {})
    ELSE callGeminiU_read(reply)

\* A slip: the return is missing after the 502, so res.json follows it.
respondU_NoReturn(g) ==
    IF g.k = "throw" THEN [g EXCEPT !.gw = "threw"]
    ELSE IF g.k # "return" THEN g
    ELSE IF ~validateSchema(g.val)
    THEN [g EXCEPT !.k = "respond", !.gw = "returned", !.status = 502,
                   !.body = TextBody(<<"Model returned invalid schema">>),
                   !.responses = @ + 2]
    ELSE [g EXCEPT !.k = "respond", !.gw = "returned", !.status = 200, !.body = g.val,
                   !.responses = @ + 1]

\* unnamed, lines 285-289: the gateway's value to a response
respondU(g) ==
    IF g.k = "throw" THEN [g EXCEPT !.gw = "threw"]
    ELSE IF g.k # "return" THEN g
    ELSE IF ~validateSchema(g.val)
    THEN [g EXCEPT !.k = "respond", !.gw = "returned", !.status = 502,
                   !.body = TextBody(<<"Model returned invalid schema">>),
                   !.responses = @ + 1]
    ELSE [g EXCEPT !.k = "respond", !.gw = "returned", !.status = 200, !.body = g.val,
                   !.responses = @ + 1]

\* A slip in the catch clause: the error is thrown on.
catchU_Rethrow(f) == f

\* A slip in the catch clause: every error is reported as a bad gateway.
catchU_BadGateway(f) ==
    IF f.k # "throw" THEN f
    ELSE [f EXCEPT !.k = "respond", !.status = 502, !.body = TextBody(f.err),
                   !.responses = @ + 1]

\* unnamed, lines 290-293: catch(err) of the route handler
catchU(f) ==
    IF f.k # "throw" THEN f
    ELSE [f EXCEPT !.k = "respond", !.status = 500, !.body = TextBody(f.err),
                   !.log = @ \cup {<<"recommend error", "<err>">>},
                   !.responses = @ + 1]

\* unnamed, line 266: if(!body || !body.profile)
profileMissingU(body) == ~Truthy(body.profile)

\* unnamed, lines 263-283: the handler up to its await
recommendU_start(req, mock, key) ==
    LET body == req.body IN
    IF profileMissingU(body)
    THEN Respond(400, TextBody(<<"profile required">>),
                 {<<"Received recommendation request">>})
    ELSE LET p0 == body.profile
             profile == [p0 EXCEPT !.interests =
                            IF @.t = "arr" THEN MapSanitize(@) ELSE @]
             exclude_titles == IF body.exclude_titles.t = "arr"
                               THEN MapSanitize(body.exclude_titles) ELSE Arr(<<>>)
             maxPerCategory == maxPerCategoryBody(body)
             seed == IF Truthy(body.seed) THEN body.seed ELSE Null
             prompt == [t |-> "prompt", maxPerCategory |-> maxPerCategory,
                        instruction |->
                            buildPromptU(profile, maxPerCategory, exclude_titles, seed)]
             g == callGeminiU_start(prompt, profile, mock, key)
         IN catchU(respondU([g EXCEPT !.log = @ \cup
                {<<"Received recommendation request">>, <<"Profile received:", "<profile>">>}]))

\* unnamed: the handler from the settling of axios.post on
recommendU_resume(reply) == catchU(respondU(callGeminiU_resume(reply)))

(***************************************************************************)
(* backend: callGemini(profile, maxPerCategory, excludeTitles, seed).      *)
(***************************************************************************)
callGeminiB_start(profile, maxPerCategory, excludeTitles, seed, key) ==
    IF key = <<>>
    THEN Throw(<<"GEMINI_API_KEY is not configured">>,
               {<<"GEMINI_API_KEY is not set in environment variables">>,
                <<"Error calling Gemini API:", "<error>">>})
    ELSE [Frame("await") EXCEPT
            !.remoteCalls = 1,
            !.prompt = buildPromptB(profile, maxPerCategory, excludeTitles, seed),
            !.log = {<<"Calling Gemini API with API key:">> \o Substring0(key, 5) \o <<"...">>,
                     <<"Gemini API URL:", "<url>">>,
                     <<"Gemini API Headers:", "Content-Type", "application/json",
                       "x-goog-api-key">> \o key}]

callGeminiB_resume(reply) ==
    LET failed == {<<"Error calling Gemini API:", "<error>">>} IN
    IF reply.k \in {"neterr", "http"}
    THEN Throw(reply.err, failed)
    ELSE IF reply.k \in {"nocandidates", "emptycandidates"}
    THEN Throw(<<"Invalid response from Gemini API">>, failed)
    ELSE IF reply.k = "nocontent" \/ reply.text = <<>>
    THEN Throw(<<"No text content in Gemini response">>, failed)
    ELSE LET parsed == JSON_parse(extractJson(reply.text)) IN
         IF ~parsed.ok
         THEN Throw(<<"Invalid JSON response from Gemini">>,
                    failed \cup {<<"Failed to parse Gemini response as JSON:", parsed.msg>>,
                                 <<"Raw response:", "<text>">>})
         ELSE [Frame("return") EXCEPT !.val = parsed.val]

\* backend, line 286: res.json(result)
respondB(g) ==
    IF g.k = "throw" THEN [g EXCEPT !.gw = "threw"]
    ELSE IF g.k # "return" THEN g
    ELSE [g EXCEPT !.k = "respond", !.gw = "returned", !.status = 200, !.body = g.val,
                   !.responses = @ + 1]

\* backend, lines 287-293: catch (error) of the route handler
catchB(f) ==
    IF f.k # "throw" THEN f
    ELSE [f EXCEPT !.k = "respond", !.status = 500,
                   !.body = ErrorBody("Failed to generate recommendations", f.err),
                   !.log = @ \cup {<<"Error processing recommendation:", "<error>">>},
                   !.responses = @ + 1]

\* backend, line 259: req.body.profile || req.body
profileOf(body) == IF Truthy(body.profile) THEN body.profile ELSE body.own

\* A slip in the validation: the reading level is not asked for.
profileInvalidB_AgeOnly(profile) == ~Truthy(profile.age)

\* backend, line 260: if (!profile || !profile.age || !profile.reading_level)
profileInvalidB(profile) == ~Truthy(profile.age) \/ ~Truthy(profile.reading_level)

\* backend, lines 256-284: the handler up to its await
recommendB_start(req, mock, key) ==
    LET p0 == profileOf(req.body)
        received == {<<"Received recommendation request:", "<body>">>}
    IN
    IF profileInvalidB(p0)
    THEN Respond(400, ErrorBody("Invalid request. Required fields: age, reading_level", <<>>),
                 received)
    ELSE LET profile == [p0 EXCEPT
                            !.reading_level = IF @.t = "str" THEN sanitizeText(@) ELSE @,
                            !.gender = IF @.t = "str" THEN sanitizeText(@) ELSE @]
             maxPerCategory == maxPerCategoryQuery(req.query)
             excludeTitles ==
                 Arr(FilterBoolean(SplitComma(
                     IF Truthy(req.query.exclude) THEN req.query.exclude.v ELSE <<>>)))
             seed == IF Truthy(req.query.seed) THEN req.query.seed ELSE uuidv4
             g == IF mock
                  THEN [Frame("return") EXCEPT
                          !.val = mockLLMResponseB(profile, maxPerCategory),
                          !.mockCalls = 1,
                          !.log = {<<"Using mock LLM response">>}]
                  ELSE LET c == callGeminiB_start(profile, maxPerCategory, excludeTitles,
                                                  seed, key)
                       IN [c EXCEPT !.log = @ \cup {<<"Calling Gemini API">>}]
         IN catchB(respondB([g EXCEPT !.log = @ \cup received]))

\* backend: the handler from the settling of axios.post on
recommendB_resume(reply) == catchB(respondB(callGeminiB_resume(reply)))

(***************************************************************************)
(* The server: the requests a client may send, the replies the remote API  *)
(* may give, and one action per step of the route handler.                 *)
(***************************************************************************)
Slots == 1..MaxInFlight

ApiKey == <<"A", "I", "z", "a", "S", "y", "B", "-", "9", "x", "Q", "7">>

Clean == Str(<<97>>)
Dirty == Str(<<97, 7, 159>>)

\* A body that is {profile: fields, ...} when nested, and else carries the
\* fields at its top level; the same text is sent in every text property.
Request(nested, age, level, text, bodyMax, queryMax) ==
    LET fields == Profile(age, IF level THEN text ELSE Undef, text, Arr(<<text>>)) IN
    [t |-> "request",
     body |-> [profile |-> IF nested THEN fields ELSE Undef,
               own |-> IF nested THEN NoProfile ELSE fields,
               exclude_titles |-> Arr(<<text>>),
               max_results_per_category |-> bodyMax,
               seed |-> text],
     query |-> [max |-> queryMax, exclude |-> text, seed |-> text]]

\* (age, reading_level present): both, the age alone, neither
FieldChoices == {<<Int_(8), TRUE>>, <<Int_(8), FALSE>>, <<Undef, FALSE>>}

\* (body.max_results_per_category, query.max)
MaxChoices ==
    {<<Undef, Undef>>, <<Int_(2), Undef>>, <<Int_(7), Str(<<50>>)>>,
     <<Int_(0), Str(<<48>>)>>, <<Int_(-3), Str(<<120>>)>>}

Requests ==
    {Request(nested, f[1], f[2], text, m[1], m[2]) :
        nested \in BOOLEAN, f \in FieldChoices, text \in {Clean, Dirty}, m \in MaxChoices}

ReplyTexts ==
    {<<>>, <<"{RM}">>, <<"{R}">>, <<"{}">>, <<"null">>, <<"5">>, <<"x">>,
     <<"F", "W", "S", "{R}", "S", "F">>}

Replies ==
    {Reply("neterr", <<>>, <<"connect ECONNREFUSED">>),
     Reply("http", <<>>, <<"Request failed with status code 500">>),
     Reply("nocandidates", <<>>, <<>>),
     Reply("emptycandidates", <<>>, <<>>),
     Reply("nocontent", <<>>, <<>>)}
    \cup {Reply("text", text, <<>>) : text \in ReplyTexts}

IdleSlot ==
    [st |-> "idle", req |-> Undef, reply |-> Undef, status |-> 0, body |-> Undef,
     remoteCalls |-> 0, mockCalls |-> 0, prompt |-> Undef, log |-> {},
     gw |-> "none", val |-> Undef, responses |-> 0]

\* The state of a frame: a response sent, a handler suspended, or an
\* exception that left the handler (an unhandled rejection).
StateOf(f) ==
    CASE f.k = "respond" -> "responded"
      [] f.k = "await" -> "pending"
      [] OTHER -> "aborted"

recommend_start(req) ==
    IF server = "unnamed"
    THEN recommendU_start(req, USE_MOCK, GEMINI_API_KEY)
    ELSE recommendB_start(req, USE_MOCK, GEMINI_API_KEY)

recommend_resume(reply) ==
    IF server = "unnamed" THEN recommendU_resume(reply) ELSE recommendB_resume(reply)

Idle == pc = "serve" /\ input = Undef /\ output = Undef

Init ==
    /\ server \in {"unnamed", "backend"}
    /\ USE_MOCK \in BOOLEAN
    /\ GEMINI_API_KEY \in {<<>>, ApiKey}
    /\ up = TRUE
    /\ rs = [r \in Slots |-> IdleSlot]
    /\ Idle

\* A request reaches app.post('/api/recommend'); the handler runs to its
\* response or to its await.
Receive(r, req) ==
    /\ pc = "serve" /\ up
    /\ rs[r].st = "idle"
    /\ LET f == recommend_start(req) IN
       /\ rs' = [rs EXCEPT ![r] =
                    [st |-> StateOf(f), req |-> req, reply |-> Undef,
                     status |-> f.status, body |-> f.body,
                     remoteCalls |-> f.remoteCalls, mockCalls |-> f.mockCalls,
                     prompt |-> f.prompt, log |-> f.log, gw |-> f.gw, val |-> f.val,
                     responses |-> f.responses]]
       /\ up' = (f.k # "throw")
    /\ UNCHANGED <<server, USE_MOCK, GEMINI_API_KEY, pc, input, output>>

\* A slip: res is kept in a variable of the module, so the handler that
\* resumes answers on the connection of the request received last.
UpstreamReply_SharedRes(r, reply) ==
    /\ pc = "serve" /\ up
    /\ rs[r].st = "pending"
    /\ LET f == recommend_resume(reply)
           waiting == {q \in DOMAIN rs : rs[q].st = "pending"}
           last == CHOOSE q \in waiting : \A p \in waiting : p <= q
           told == [rs EXCEPT ![r] = [@ EXCEPT !.reply = reply]]
       IN
       /\ rs' = [told EXCEPT ![last] =
                    [@ EXCEPT !.st = StateOf(f),
                              !.status = f.status, !.body = f.body,
                              !.remoteCalls = @ + f.remoteCalls,
                              !.log = @ \cup f.log, !.gw = f.gw, !.val = f.val,
                              !.responses = @ + f.responses]]
       /\ up' = (f.k # "throw")
    /\ UNCHANGED <<server, USE_MOCK, GEMINI_API_KEY, pc, input, output>>

\* axios.post settles; the handler runs on to its response.
UpstreamReply(r, reply) ==
    /\ pc = "serve" /\ up
    /\ rs[r].st = "pending"
    /\ LET f == recommend_resume(reply) IN
       /\ rs' = [rs EXCEPT ![r] =
                    [@ EXCEPT !.st = StateOf(f), !.reply = reply,
                              !.status = f.status, !.body = f.body,
                              !.remoteCalls = @ + f.remoteCalls,
                              !.log = @ \cup f.log, !.gw = f.gw, !.val = f.val,
                              !.responses = @ + f.responses]]
       /\ up' = (f.k # "throw")
    /\ UNCHANGED <<server, USE_MOCK, GEMINI_API_KEY, pc, input, output>>

\* The exchange is over; nothing of it is kept.
Close(r) ==
    /\ pc = "serve" /\ up
    /\ rs[r].st = "responded"
    /\ rs' = [rs EXCEPT ![r] = IdleSlot]
    /\ UNCHANGED <<server, USE_MOCK, GEMINI_API_KEY, up, pc, input, output>>

Next ==
    \/ \E r \in Slots, req \in Requests : Receive(r, req)
    \/ \E r \in Slots, reply \in Replies : UpstreamReply(r, reply)
    \/ \E r \in Slots : Close(r)

Spec == Init /\ [][Next]_vars

(***************************************************************************)
(* Concurrent requests: the same handler steps over MaxConcurrent          *)
(* connections; the requests differ in shape and text, the replies in      *)
(* kind.                                                                   *)
(***************************************************************************)
MaxConcurrent == 2

Conns == 1..MaxConcurrent

ConcRequests ==
    {Request(nested, f[1], f[2], text, Undef, Undef) :
        nested \in BOOLEAN, f \in FieldChoices, text \in {Clean, Dirty}}

ConcReplies ==
    {Reply("neterr", <<>>, <<"connect ECONNREFUSED">>),
     Reply("text", <<"{RM}">>, <<>>),
     Reply("text", <<"{}">>, <<>>),
     Reply("text", <<"x">>, <<>>)}

InitConcurrent ==
    /\ server \in {"unnamed", "backend"}
    /\ USE_MOCK \in BOOLEAN
    /\ GEMINI_API_KEY \in {<<>>, ApiKey}
    /\ up = TRUE
    /\ rs = [r \in Conns |-> IdleSlot]
    /\ Idle

NextConcurrent ==
    \/ \E r \in Conns, req \in ConcRequests : Receive(r, req)
    \/ \E r \in Conns, reply \in ConcReplies : UpstreamReply(r, reply)
    \/ \E r \in Conns : Close(r)

SpecConcurrent == InitConcurrent /\ [][NextConcurrent]_vars

(***************************************************************************)
(* The paths of the handler, with the remote call settling in the end: a   *)
(* request that passes validation in both servers, one that passes in one  *)
(* server only, one that fails it; a call that fails, a reply that is      *)
(* well-formed, one of invalid schema, one that does not parse.            *)
(***************************************************************************)
PathRequests ==
    {Request(TRUE, Int_(8), TRUE, Clean, Undef, Undef),
     Request(TRUE, Int_(8), FALSE, Clean, Undef, Undef),
     Request(FALSE, Undef, FALSE, Clean, Undef, Undef)}

NextAnswered ==
    \/ \E r \in Conns, req \in PathRequests : Receive(r, req)
    \/ \E r \in Conns, reply \in ConcReplies : UpstreamReply(r, reply)
    \/ \E r \in Conns : Close(r)

\* The remote call of every pending request returns or fails in the end.
RemoteCallSettles ==
    \A r \in Conns : WF_vars(\E reply \in ConcReplies : UpstreamReply(r, reply))

SpecAnswered == InitConcurrent /\ [][NextAnswered]_vars /\ RemoteCallSettles

(***************************************************************************)
(* Function harnesses: the server stands still (no request is in flight)   *)
(* while one function is applied to an argument drawn at the start.        *)
(***************************************************************************)
Standing ==
    /\ USE_MOCK = FALSE
    /\ GEMINI_API_KEY = ApiKey
    /\ up = TRUE
    /\ rs = [r \in Slots |-> IdleSlot]

\* sanitizeText, applied to a value and then to its own result
CodePoints == {0, 31, 32, 126, 127, 159, 160}

SeqsUpTo(S, n) == UNION {[1..k -> S] : k \in 0..n}

SanitizeInputs ==
    {Str(s) : s \in SeqsUpTo(CodePoints, MaxStrLen)} \cup {Null, Undef, Int_(0), Int_(7)}

InitSanitize ==
    /\ server = "unnamed"
    /\ Standing
    /\ pc = "sanitize"
    /\ input \in SanitizeInputs
    /\ output = <<>>

ApplySanitize ==
    /\ pc = "sanitize"
    /\ Len(output) < 2
    /\ output' = Append(output, sanitizeText(IF output = <<>> THEN input
                                             ELSE output[Len(output)]))
    /\ UNCHANGED <<server, USE_MOCK, GEMINI_API_KEY, up, rs, pc, input>>

NextSanitize == ApplySanitize

SpecSanitize == InitSanitize /\ [][NextSanitize]_vars

\* mockLLMResponse, applied to a profile and a max-per-category N >= 1
MockProfiles ==
    {Profile(age, level, Clean, interests) :
        age \in {Undef, Int_(3), Int_(8)}, level \in {Undef, Clean},
        interests \in {Undef, Arr(<<>>), Arr(<<Clean, Dirty>>)}}

InitMock ==
    /\ server \in {"unnamed", "backend"}
    /\ Standing
    /\ pc = "mock"
    /\ input \in {[profile |-> p, n |-> n] : p \in MockProfiles, n \in 1..MaxN}
    /\ output = Undef

ApplyMock ==
    /\ pc = "mock"
    /\ output = Undef
    /\ output' = IF server = "unnamed"
                 THEN mockLLMResponseU(input.profile,
                                       [t |-> "prompt", maxPerCategory |-> Int_(input.n)])
                 ELSE mockLLMResponseB(input.profile, Int_(input.n))
    /\ UNCHANGED <<server, USE_MOCK, GEMINI_API_KEY, up, rs, pc, input>>

NextMock == ApplyMock

SpecMock == InitMock /\ [][NextMock]_vars

\* The live handler after the await, applied to a JSON document sent bare,
\* in a ```json fence and in a plain ``` fence.
JsonDocs ==
    {<<lit>> : lit \in Literals}
    \cup {<<"Q">> \o inner \o <<"Q">> : inner \in SeqsUpTo(Tokens \ {"Q"}, MaxInner)}

InFenceJson(doc) == <<"F", "W", "S">> \o doc \o <<"S", "F">>
InFence(doc) == <<"F", "S">> \o doc \o <<"S", "F">>

\* What the client sees of a frame
Seen(f) == [k |-> f.k, status |-> f.status, body |-> f.body]

InitFence ==
    /\ server \in {"unnamed", "backend"}
    /\ Standing
    /\ pc = "fence"
    /\ input \in JsonDocs
    /\ output = <<>>

ApplyFence ==
    /\ pc = "fence"
    /\ Len(output) < 3
    /\ LET text == CASE Len(output) = 0 -> input
                     [] Len(output) = 1 -> InFenceJson(input)
                     [] OTHER -> InFence(input)
       IN output' = Append(output, Seen(recommend_resume(Reply("text", text, <<>>))))
    /\ UNCHANGED <<server, USE_MOCK, GEMINI_API_KEY, up, rs, pc, input>>

NextFence == ApplyFence

SpecFence == InitFence /\ [][NextFence]_vars

(***************************************************************************)
(* Properties.                                                             *)
(***************************************************************************)
Active(r) == rs[r].st # "idle"
Responded(r) == rs[r].st = "responded"
Replied(r) == rs[r].reply.t = "reply"

\* The body has no profile field.
NoProfileField(req) == req.body.profile.t = "undef"

\* No call to the mock generator nor to the remote API was made.
NoGatewayCall(r) == rs[r].mockCalls = 0 /\ rs[r].remoteCalls = 0

\* The value has the key (the key is present).
HasKey(v, key) == v.t = "obj" /\ v[key].t # "undef"

\* The message a failure response carries.
MessageOf(body) ==
    CASE body.t = "text" -> body.v
      [] body.t = "error" -> body.details
      [] OTHER -> <<>>

\* C1, as stated: every request whose body has no profile field is answered
\* with 400, in mock and in live mode, and no gateway call is made for it.
C1_NoProfileIs400 ==
    \A r \in Slots :
        (Active(r) /\ NoProfileField(rs[r].req))
            => (Responded(r) /\ rs[r].status = 400 /\ NoGatewayCall(r))

\* C1, amended: a request whose body has no profile field is answered with
\* 400 and no gateway call is made for it, in mock and in live mode, by the
\* unnamed server always and by the backend server when the body also lacks
\* a truthy top-level age or reading_level.
C1_MissingProfileIs400 ==
    \A r \in Slots :
        (/\ Active(r)
         /\ NoProfileField(rs[r].req)
         /\ server = "backend" =>
                (~Truthy(rs[r].req.body.own.age)
                    \/ ~Truthy(rs[r].req.body.own.reading_level)))
            => (Responded(r) /\ rs[r].status = 400 /\ NoGatewayCall(r))

\* C1, witness: in live mode with a credential, a body without a profile
\* field has been answered with 400.
C1_Witness ==
    \E r \in Slots :
        /\ ~USE_MOCK /\ GEMINI_API_KEY # <<>>
        /\ Responded(r) /\ NoProfileField(rs[r].req) /\ rs[r].status = 400

C3_MockRequestAnswered ==
    \A r \in Slots :
        (/\ USE_MOCK /\ Active(r)
         /\ ~NoProfileField(rs[r].req)
         /\ rs[r].req.body.max_results_per_category.t = "int"
         /\ rs[r].req.body.max_results_per_category.n >= 1)
            => /\ Responded(r)
               /\ rs[r].status = 200
               /\ HasKey(rs[r].body, "metadata")
               /\ Truthy(rs[r].body.metadata.request_id)
               /\ HasKey(rs[r].body, "results")
               /\ Len(rs[r].body.results.fiction)
                    <= rs[r].req.body.max_results_per_category.n
               /\ Len(rs[r].body.results.nonfiction)
                    <= rs[r].req.body.max_results_per_category.n

\* C3, reached: in mock mode the backend server answers the request of its
\* own test (a profile with an age and no reading_level, N = 2) with 400.
C3_Reached ==
    \E r \in Slots :
        /\ USE_MOCK /\ server = "backend" /\ Responded(r)
        /\ ~NoProfileField(rs[r].req)
        /\ rs[r].req.body.max_results_per_category = Int_(2)
        /\ rs[r].status = 400

\* The gateway's value is an object with a results key and, in the server
\* that requires it (the unnamed one), a metadata key.
WellFormed(v) ==
    HasKey(v, "results") /\ (server = "unnamed" => HasKey(v, "metadata"))

\* C4: the response normalizer is a gate on every request: a gateway value
\* that is not an object with a results key (and a metadata key where that
\* is required) is answered with 502, never with 200 or 500, and every 200
\* response body contains a results key.
C4_NormalizerGate ==
    \A r \in Slots :
        Responded(r)
            => /\ (rs[r].gw = "returned" /\ ~WellFormed(rs[r].val)) => rs[r].status = 502
               /\ rs[r].status = 200 => HasKey(rs[r].body, "results")

\* C4, reached: the backend server has answered 200 with a gateway value
\* that has no results key.
C4_Reached ==
    \E r \in Slots :
        /\ server = "backend" /\ Responded(r) /\ rs[r].gw = "returned"
        /\ rs[r].status = 200 /\ ~HasKey(rs[r].body, "results")

\* The text that the server hands to JSON.parse.
HandedToParser(text) == IF server = "unnamed" THEN text ELSE extractJson(text)

\* The message holds the parser's message.
CarriesParserMessage(msg) == \E i \in 1..Len(msg) : msg[i] = SyntaxErrorMessage

C6_FencedParsesAlike ==
    (pc = "fence" /\ Len(output) = 3)
        => /\ output[2] = output[1]
           /\ output[3] = output[1]
           /\ ~Includes(input, Fence) => output[1].status # 500

\* C6, reached: the unnamed server answers a document with 200 and the same
\* document in a ```json fence with 500.
C6_Reached ==
    /\ pc = "fence" /\ Len(output) = 3 /\ server = "unnamed"
    /\ output[1].status = 200 /\ output[2].status = 500

\* The reply holds no candidate, or a first candidate with no text.
NoCandidateText(reply) ==
    \/ reply.k \in {"nocandidates", "emptycandidates", "nocontent"}
    \/ reply.k = "text" /\ reply.text = <<>>

\* C7: in live mode a reply with an absent or empty candidate list, or with
\* a first candidate that has no text, ends the request with a status other
\* than 200, and the server does not crash: no exception leaves the handler
\* and the process stays up, which is all that Receive asks for.
C7_NoCandidateFailsSafely ==
    /\ up
    /\ \A r \in Slots :
        /\ rs[r].st # "aborted"
        /\ (Replied(r) /\ NoCandidateText(rs[r].reply))
              => (Responded(r) /\ rs[r].status \notin {0, 200})

\* C7, witness: a reply with an empty candidate list has been answered with
\* 500 and the server is up.
C7_Witness ==
    \E r \in Slots :
        /\ up /\ Responded(r) /\ Replied(r)
        /\ rs[r].reply.k = "emptycandidates"
        /\ rs[r].status = 500

\* C8: on every path, in every mode, the full value of the credential never
\* appears in a response body nor in a console line.
C8_CredentialNeverExposed ==
    GEMINI_API_KEY # <<>>
        => \A r \in Slots :
              /\ \A line \in rs[r].log : ~Includes(line, GEMINI_API_KEY)
              /\ ~Includes(MessageOf(rs[r].body), GEMINI_API_KEY)

\* C8, reached: the backend server has written the credential in full to
\* the console.
C8_Reached ==
    \E r \in Slots :
        /\ server = "backend" /\ GEMINI_API_KEY # <<>>
        /\ \E line \in rs[r].log : Includes(line, GEMINI_API_KEY)

\* C9: a request issues at most one call to the remote endpoint; a failed
\* call (transport failure or non-2xx) is not retried and fails the request
\* with a status other than 200; in mock mode no remote call is made.
C9_AtMostOneRemoteCall ==
    \A r \in Slots :
        /\ rs[r].remoteCalls <= 1
        /\ USE_MOCK => rs[r].remoteCalls = 0
        /\ (Replied(r) /\ rs[r].reply.k \in {"neterr", "http"})
              => /\ Responded(r)
                 /\ rs[r].status \notin {0, 200}
                 /\ rs[r].remoteCalls = 1

\* C9, witness: a call that failed in transport was made once and the
\* request was answered with 500.
C9_Witness ==
    \E r \in Slots :
        /\ Responded(r) /\ Replied(r)
        /\ rs[r].reply.k = "neterr"
        /\ rs[r].remoteCalls = 1 /\ rs[r].status = 500

\* The code unit is a C0 or a C1 control character.
InControlRanges(c) == c \in (0..31) \cup (127..159)

\* C10: sanitizeText is idempotent, its output holds no character in
\* U+0000..U+001F or U+007F..U+009F, and null and absent values pass through
\* unchanged.
C10_SanitizeIdempotent ==
    pc = "sanitize"
        => /\ Len(output) = 2 => output[2] = output[1]
           /\ (Len(output) >= 1 /\ output[1].t = "str")
                 => \A i \in 1..Len(output[1].v) : ~InControlRanges(output[1].v[i])
           /\ (Len(output) >= 1 /\ input.t \in {"null", "undef"}) => output[1] = input

\* C10, witness: a string with control characters was sanitized twice, the
\* first pass removed something and left something.
C10_Witness ==
    /\ pc = "sanitize" /\ Len(output) = 2
    /\ input.t = "str" /\ output[1] # input /\ output[1].v # <<>>
    /\ output[2] = output[1]

\* The string holds a C0 or a C1 control character.
HasControl(s) == \E i \in 1..Len(s) : InControlRanges(s[i])

\* What buildPrompt returned for the request in the slot.
Built(r) == IF server = "unnamed" THEN rs[r].prompt.instruction ELSE rs[r].prompt

\* C11: for every request whose prompt is sent to the model, every text
\* value of the request that is interpolated into the instruction (the
\* scalar strings of the profile, the elements of its arrays, the excluded
\* titles, the seed) went through the sanitizer before buildPrompt, so it
\* holds no C0 or C1 control character, and none appears in the instruction.
C11_SanitizedBeforePrompt ==
    \A r \in Slots :
        rs[r].prompt # Undef
            => LET b == Built(r) IN
               /\ \A i \in 1..Len(Interpolated(b)) :
                     Interpolated(b)[i].t = "str" => ~HasControl(Interpolated(b)[i].v)
               /\ \A i \in 1..Len(instruction(b)) : ~HasControl(instruction(b)[i])

\* C11, reached: the backend server has sent a prompt whose seed is the
\* query's seed with its control characters.
C11_Reached ==
    \E r \in Slots :
        /\ server = "backend" /\ rs[r].prompt # Undef
        /\ rs[r].req.query.seed = Dirty
        /\ Built(r).seed = Dirty
        /\ \E i \in 1..Len(instruction(Built(r))) : instruction(Built(r))[i] = Dirty.v

\* The value the request gives for the number of results per category.
RequestedMax(req) ==
    IF server = "unnamed" THEN req.body.max_results_per_category ELSE req.query.max

\* The request's value is a positive integer (as a number or as a numeral).
ValidMax(v) == Number(v).t = "int" /\ Number(v).n > 0

\* C12: the number of results per category that the handler passes to the
\* prompt builder and to the gateway is a positive integer, and it is 5 when
\* the request's value is absent or invalid (not a number, zero, negative).
C12_MaxIsPositiveInt ==
    \A r \in Slots :
        rs[r].prompt # Undef
            => LET m == rs[r].prompt.maxPerCategory IN
               /\ m.t = "int" /\ m.n > 0
               /\ ~ValidMax(RequestedMax(rs[r].req)) => m = Int_(5)

\* C12, reached: the unnamed server has built and sent a prompt for -3
\* results per category.
C12_Reached ==
    \E r \in Slots :
        /\ server = "unnamed" /\ rs[r].prompt # Undef
        /\ rs[r].req.body.max_results_per_category = Int_(-3)
        /\ rs[r].prompt.maxPerCategory = Int_(-3)

\* What the handler does with the request of the slot and the reply it got,
\* run on its own.
Alone(r) ==
    IF Replied(r) THEN recommend_resume(rs[r].reply) ELSE recommend_start(rs[r].req)

\* The state, status and body of the slot are those of its handler run alone.
OwnOutcome(r) ==
    LET f == Alone(r) IN
    /\ rs[r].st = StateOf(f)
    /\ rs[r].status = f.status
    /\ rs[r].body = f.body

\* A step of request handling leaves the startup configuration as it is and
\* touches one request only.
IsolatedStep ==
    /\ server' = server /\ USE_MOCK' = USE_MOCK /\ GEMINI_API_KEY' = GEMINI_API_KEY
    /\ \A r, q \in Conns : (r # q /\ rs'[r] # rs[r]) => rs'[q] = rs[q]

\* While a request is pending on the remote call, a request that fails
\* validation can be received on an idle connection and is answered at once.
OthersServed ==
    \A r, q \in Conns :
        (rs[r].st = "pending" /\ rs[q].st = "idle")
            => \A req \in ConcRequests :
                  recommend_start(req).status = 400
                      => ENABLED (Receive(q, req) /\ rs'[q].st = "responded"
                                    /\ rs'[r] = rs[r])

OneResponse(r) ==
    /\ rs[r].st # "aborted"
    /\ rs[r].st = "pending" => rs[r].responses = 0
    /\ rs[r].st = "responded" => rs[r].responses = 1

\* A request that has been answered takes no further step of the handler.
Settled ==
    \A r \in Conns : (rs[r].st = "responded" /\ rs'[r].st # "idle") => rs'[r] = rs[r]

\* C14: every request received is answered exactly once: on every path of
\* the handler one response is sent, never two, and never none when the
\* remote call returns or fails in the end (no request waits for ever, and
\* a request that does not wait has its one response); a request that has
\* been answered takes no further step.
C14_AnsweredExactlyOnce ==
    /\ [](\A r \in Conns : OneResponse(r))
    /\ [][Settled]_vars
    /\ \A r \in Conns : []<>(rs[r].st # "pending")

\* C14, witness: a request that waited for the remote call has been
\* answered once, with 502 for a value of invalid schema.
C14_Witness ==
    \E r \in Conns :
        /\ Responded(r) /\ Replied(r)
        /\ rs[r].status = 502 /\ rs[r].responses = 1

====
